---- MODULE Spec2Model ----
(***************************************************************************)
(* A model of the relevance pipeline of the BLKOUT research agent:        *)
(* domain policy, keyword scorer, candidate routing, oracle fallback and  *)
(* URL de-duplication of the news, events and grants agents.              *)
(*                                                                         *)
(* Text is modelled by TLA+ strings; substring tests, lower-casing and    *)
(* URL parsing are computed character by character as Python does.        *)
(***************************************************************************)
EXTENDS Integers, Sequences, FiniteSets, TLC

VARIABLES
  \* the keyword scorer called on its own
  q_pc, q_text, q_url, q_score,
  \* NewsResearchAgent.research
  n_pc,          \* "off", "start", "analyze", "done"
  all_results,   \* what multi_search returned
  candidates,    \* (result, quick_score) pairs that passed the quick filter
  rejected,      \* (result, reason) pairs
  n_i,           \* position of the phase 3 loop in candidates
  discovered,    \* DiscoveredArticle list
  oracle_log,    \* history: every analyze_relevance call and its outcome
  \* EventsDiscoveryAgent.discover_all
  e_pc,          \* "off", "gather", "done"
  s_pc,          \* discover_from_search: "off", "start", "loop", "returned"
  s_results,     \* what search_qtipoc_events returned
  s_i,           \* position of the loop in s_results
  s_events,      \* events of the search branch
  s_rejected,    \* (result, reason) pairs of the search branch
  date_log,      \* history: every _extract_date_from_text call and its outcome
  c_pc,          \* discover_from_scraping: "off", "start", "returned", "raised"
  c_events,      \* events of the scrape branch
  all_events,    \* the merged list of discover_all
  unique_events, \* what discover_all returns
  \* GrantResearchAgent.research
  g_pc,          \* "off", "start", "analyze", "done", "raised"
  g_results,     \* what multi_search returned
  g_candidates,  \* (result, quick_score) pairs that passed the quick filter
  g_i,           \* position of the phase 3 loop in g_candidates
  g_discovered,  \* DiscoveredGrant list
  g_log,         \* history: every _analyze_grant_with_llm call and its result
  \* LLMClient.complete / complete_json: one request
  l_pc,          \* "off", "attempt", "returned", "raised"
  l_kind,        \* "complete" or "complete_json"
  l_attempts,    \* calls of the backend made for the request
  l_log,         \* history: the outcome of each call
  l_result,      \* what the caller receives
  \* EventsDiscoveryAgent._extract_date_from_text called on its own
  d_pc,          \* "off", "call", "returned", "raised"
  d_response,    \* what llm.complete answers
  d_result,      \* the date returned: None or a string
  \* DatabaseClient: the stored tables and the batch insert under way
  db_pc,         \* "off", "idle", "batch"
  news_articles, \* rows of the table news_articles
  events_rows,   \* rows of the table events
  b_kind,        \* "articles" or "events": the batch method running
  b_items,       \* its argument
  b_i,           \* position of its loop
  b_inserted,    \* its counters
  b_skipped,
  db_returns,    \* history: how each batch call ended
  \* PlanningAgent.run_daily_discovery
  p_pc,          \* "off", "news", "events", "sync", "done"
  p_results,     \* the dict results: news, events, ivor_sync, errors
  p_stages,      \* history: the stages called, in order, and how each ended
  p_branches,    \* history: how the two branches of discover_all ended
  \* two runs of insert_articles_batch against one store, each in its own
  \* process
  r_pc,          \* per run: "check", "insert", "done"
  r_items,       \* per run: the articles it was handed
  r_i,           \* per run: position of its loop
  \* SearchAgent.multi_search
  m_pc,          \* "off", "loop", "returned"
  m_queries,     \* the argument queries
  m_q,           \* position of the loop over the queries
  m_all,         \* all_results
  m_seen,        \* seen_urls
  m_log          \* history: what search_fn returned for each query

scoreVars == <<q_pc, q_text, q_url, q_score>>

newsVars == <<n_pc, all_results, candidates, rejected, n_i, discovered, oracle_log>>

eventVars ==
  <<e_pc, s_pc, s_results, s_i, s_events, s_rejected, date_log, c_pc,
    c_events, all_events, unique_events>>

grantVars == <<g_pc, g_results, g_candidates, g_i, g_discovered, g_log>>

llmVars == <<l_pc, l_kind, l_attempts, l_log, l_result>>

dateVars == <<d_pc, d_response, d_result>>

dbVars ==
  <<db_pc, news_articles, events_rows, b_kind, b_items, b_i, b_inserted,
    b_skipped, db_returns>>

planVars == <<p_pc, p_results, p_stages, p_branches>>

raceVars == <<r_pc, r_items, r_i>>

searchVars == <<m_pc, m_queries, m_q, m_all, m_seen, m_log>>

vars == <<scoreVars, newsVars, eventVars, grantVars, llmVars, dateVars, dbVars, planVars, raceVars, searchVars>>

\* a component that takes no part in the run
ScoreOff == q_pc = "off" /\ q_text = "" /\ q_url = "" /\ q_score = 0

NewsOff ==
  /\ n_pc = "off"
  /\ all_results = <<>>
  /\ candidates = <<>>
  /\ rejected = <<>>
  /\ n_i = 0
  /\ discovered = <<>>
  /\ oracle_log = <<>>

EventsOff ==
  /\ e_pc = "off"
  /\ s_pc = "off"
  /\ s_results = <<>>
  /\ s_i = 0
  /\ s_events = <<>>
  /\ s_rejected = <<>>
  /\ date_log = <<>>
  /\ c_pc = "off"
  /\ c_events = <<>>
  /\ all_events = <<>>
  /\ unique_events = <<>>

GrantsOff ==
  /\ g_pc = "off"
  /\ g_results = <<>>
  /\ g_candidates = <<>>
  /\ g_i = 0
  /\ g_discovered = <<>>
  /\ g_log = <<>>

LLMOff ==
  /\ l_pc = "off"
  /\ l_kind = ""
  /\ l_attempts = 0
  /\ l_log = <<>>
  /\ l_result = ""

DateOff ==
  /\ d_pc = "off"
  /\ d_response = ""
  /\ d_result = <<>>

DBOff ==
  /\ db_pc = "off"
  /\ news_articles = <<>>
  /\ events_rows = <<>>
  /\ b_kind = ""
  /\ b_items = <<>>
  /\ b_i = 0
  /\ b_inserted = 0
  /\ b_skipped = 0
  /\ db_returns = <<>>

PlanOff ==
  /\ p_pc = "off"
  /\ p_results = <<>>
  /\ p_stages = <<>>
  /\ p_branches = <<>>

RaceOff ==
  /\ r_pc = <<>>
  /\ r_items = <<>>
  /\ r_i = <<>>

SearchOff ==
  /\ m_pc = "off"
  /\ m_queries = <<>>
  /\ m_q = 0
  /\ m_all = <<>>
  /\ m_seen = {}
  /\ m_log = <<>>

\* every component that is not in running takes no part in the run
AllOffExcept(running) ==
  /\ "score" \in running \/ ScoreOff
  /\ "news" \in running \/ NewsOff
  /\ "events" \in running \/ EventsOff
  /\ "grants" \in running \/ GrantsOff
  /\ "llm" \in running \/ LLMOff
  /\ "date" \in running \/ DateOff
  /\ "db" \in running \/ DBOff
  /\ "plan" \in running \/ PlanOff
  /\ "race" \in running \/ RaceOff
  /\ "msearch" \in running \/ SearchOff

\* a step of the components in running leaves every other component alone
UnchangedExcept(running) ==
  /\ IF "score" \in running THEN TRUE ELSE UNCHANGED scoreVars
  /\ IF "news" \in running THEN TRUE ELSE UNCHANGED newsVars
  /\ IF "events" \in running THEN TRUE ELSE UNCHANGED eventVars
  /\ IF "grants" \in running THEN TRUE ELSE UNCHANGED grantVars
  /\ IF "llm" \in running THEN TRUE ELSE UNCHANGED llmVars
  /\ IF "date" \in running THEN TRUE ELSE UNCHANGED dateVars
  /\ IF "db" \in running THEN TRUE ELSE UNCHANGED dbVars
  /\ IF "plan" \in running THEN TRUE ELSE UNCHANGED planVars
  /\ "race" \in running \/ UNCHANGED raceVars
  /\ "msearch" \in running \/ UNCHANGED searchVars

----------------------------------------------------------------------------
(* Strings *)

\* str.lower() on the ASCII letters.
LowerTable ==
  [c \in {"A","B","C","D","E","F","G","H","I","J","K","L","M",
          "N","O","P","Q","R","S","T","U","V","W","X","Y","Z"} |->
     CASE c = "A" -> "a" [] c = "B" -> "b" [] c = "C" -> "c" [] c = "D" -> "d"
       [] c = "E" -> "e" [] c = "F" -> "f" [] c = "G" -> "g" [] c = "H" -> "h"
       [] c = "I" -> "i" [] c = "J" -> "j" [] c = "K" -> "k" [] c = "L" -> "l"
       [] c = "M" -> "m" [] c = "N" -> "n" [] c = "O" -> "o" [] c = "P" -> "p"
       [] c = "Q" -> "q" [] c = "R" -> "r" [] c = "S" -> "s" [] c = "T" -> "t"
       [] c = "U" -> "u" [] c = "V" -> "v" [] c = "W" -> "w" [] c = "X" -> "x"
       [] c = "Y" -> "y" [] c = "Z" -> "z"]

LowerChar(c) == IF c \in DOMAIN LowerTable THEN LowerTable[c] ELSE c

RECURSIVE lower(_)
lower(s) ==
  IF s = "" THEN ""
  ELSE LowerChar(SubSeq(s, 1, 1)) \o lower(SubSeq(s, 2, Len(s)))

\* s[i:i+len(sub)] == sub
MatchAt(sub, s, i) ==
  /\ i + Len(sub) - 1 <= Len(s)
  /\ SubSeq(s, i, i + Len(sub) - 1) = sub

\* Python's `sub in s`
Contains(sub, s) == \E i \in 1..(Len(s) - Len(sub) + 1) : MatchAt(sub, s, i)

\* Python's s.find(sub), 1-based; 0 when sub does not occur
Find(sub, s) ==
  IF Contains(sub, s)
  THEN CHOOSE i \in 1..(Len(s) - Len(sub) + 1) :
         /\ MatchAt(sub, s, i)
         /\ \A j \in 1..(i - 1) : ~MatchAt(sub, s, j)
  ELSE 0

\* Python's s.replace(old, new): every non-overlapping occurrence, left to right
RECURSIVE Replace(_, _, _)
Replace(s, old, new) ==
  LET i == Find(old, s)
  IN  IF i = 0 THEN s
      ELSE SubSeq(s, 1, i - 1) \o new
             \o Replace(SubSeq(s, i + Len(old), Len(s)), old, new)

\* any(kw in text for kw in keywords)
AnyIn(keywords, text) == \E k \in 1..Len(keywords) : Contains(keywords[k], text)

----------------------------------------------------------------------------
(* Configuration tables: configs/blkout_config.py *)

high_relevance_keywords ==
  <<
    "black queer", "black gay", "black lgbtq", "black trans",
    "black lesbian", "qtipoc", "qpoc", "blkout", "blackout uk",
    "uk black pride", "black bisexual", "black nonbinary",
    "black non-binary", "african diaspora lgbtq", "caribbean lgbtq",
    "windrush lgbtq", "black british queer"
  >>

black_keywords ==
  <<
    "black", "african", "caribbean", "windrush", "diaspora", "afro",
    "nigerian", "jamaican", "ghanaian", "somali"
  >>

lgbtq_keywords ==
  <<
    "lgbtq", "queer", "gay", "lesbian", "trans", "bisexual", "pride",
    "nonbinary", "non-binary", "drag", "same-sex"
  >>

uk_keywords ==
  <<
    "uk", "britain", "british", "london", "manchester", "birmingham",
    "bristol", "leeds", "glasgow", "edinburgh", "cardiff"
  >>

negative_keywords ==
  <<
    "musician", "band", "rapper", "singer", "artist", "actor", "actress",
    "movie", "film", "tv show", "television", "netflix", "bbc drama",
    "netflix series", "imdb", "rotten tomatoes", "game", "video game",
    "gaming", "esports", "twitch", "steam", "playstation", "xbox",
    "character", "gameplay", "usa", "america", "us pride", "american",
    "california", "new york", "wikipedia", "wiki", "wikia", "encyclopedia",
    "reddit", "tutorial", "how-to", "guide", "tips", "tricks",
    "corporate pride", "company announcement", "marketing"
  >>

domain_blacklist ==
  <<
    "wikipedia.org", "en.wikipedia.org", "reddit.com", "www.reddit.com",
    "imdb.com", "www.imdb.com", "rottentomatoes.com", "steam.powered.com",
    "metacritic.com", "fandom.com", "wiki.fandom.com", "gamepedia.com",
    "twitch.tv"
  >>

domain_whitelist ==
  <<
    "bbc.co.uk", "bbc.com", "theguardian.com", "independent.co.uk",
    "itv.com", "channel4.com", "pinknews.co.uk", "attitude.co.uk",
    "gaytimes.co.uk", "thepinkcompass.com", "outsavvy.com",
    "eventbrite.co.uk", "moonlightexperiences.com",
    "londonlgbtqcentre.org", "designmynight.com", "eventim.co.uk",
    "ticketmaster.co.uk", "*.org.uk", "black-pride.org", "blackout.lgbt",
    "blkout.com", "stonewall.org.uk", "mermaids.org.uk", "instagram.com",
    "facebook.com", "twitter.com", "x.com"
  >>

relevance_threshold == 75

event_relevance_threshold == 80

----------------------------------------------------------------------------
(* Domain policy: NewsResearchAgent._extract_domain / _is_domain_acceptable *)

SchemeChars ==
  {"a","b","c","d","e","f","g","h","i","j","k","l","m","n","o","p","q","r",
   "s","t","u","v","w","x","y","z","0","1","2","3","4","5","6","7","8","9",
   "+","-","."}

\* urllib.parse.urlparse(url).netloc: the text between "scheme://" and the
\* first of "/", "?", "#"; empty when the URL has no "//" after its scheme
urlparse_netloc(url) ==
  LET i    == Find(":", url)
      isScheme ==
        /\ i > 1
        /\ \A j \in 1..(i - 1) : LowerChar(SubSeq(url, j, j)) \in SchemeChars
      rest == IF isScheme THEN SubSeq(url, i + 1, Len(url)) ELSE url
  IN  IF Len(rest) >= 2 /\ SubSeq(rest, 1, 2) = "//"
      THEN LET body == SubSeq(rest, 3, Len(rest))
               ends == {j \in 1..Len(body) : SubSeq(body, j, j) \in {"/", "?", "#"}}
               e    == IF ends = {} THEN Len(body) + 1
                       ELSE CHOOSE j \in ends : \A m \in ends : j <= m
           IN  SubSeq(body, 1, e - 1)
      ELSE ""

\* parsed.netloc.replace("www.", "").lower()
_extract_domain(url) == lower(Replace(urlparse_netloc(url), "www.", ""))

EndsWith(s, suffix) ==
  /\ Len(suffix) <= Len(s)
  /\ SubSeq(s, Len(s) - Len(suffix) + 1, Len(s)) = suffix

\* NewsResearchAgent._is_domain_acceptable
News_is_domain_acceptable(url) ==
  LET url_lower == lower(url)
      domain    == _extract_domain(url_lower)
  IN  IF AnyIn(domain_blacklist, domain) THEN FALSE
      ELSE IF \E w \in 1..Len(domain_whitelist) :
                 LET whitelisted_clean == Replace(domain_whitelist[w], "*.", "")
                 IN  \/ Contains(whitelisted_clean, domain)
                     \/ EndsWith(domain, whitelisted_clean)
           THEN TRUE
           ELSE TRUE

----------------------------------------------------------------------------
(* Keyword scorer: NewsResearchAgent._quick_relevance_check *)

DomainRejected == -1

\* mutant: a negative term rejects whatever else the text holds
NegativeRejects_NoOverride(text_lower) ==
  AnyIn(negative_keywords, text_lower)

\* for neg_term in negative_keywords: if neg_term in text_lower and not
\* has_high_relevance: return 15
NegativeRejects(text_lower) ==
  \E k \in 1..Len(negative_keywords) :
    /\ Contains(negative_keywords[k], text_lower)
    /\ ~AnyIn(high_relevance_keywords, text_lower)

\* mutant: the band values the scorer had before they were lowered
KeywordScore_FormerBands(text_lower) ==
  LET has_black == AnyIn(black_keywords, text_lower)
      has_lgbtq == AnyIn(lgbtq_keywords, text_lower)
      has_uk    == AnyIn(uk_keywords, text_lower)
  IN  IF NegativeRejects(text_lower) THEN 15
      ELSE IF AnyIn(high_relevance_keywords, text_lower) THEN 95
      ELSE IF has_black /\ has_lgbtq /\ has_uk THEN 85
      ELSE IF has_black /\ has_lgbtq THEN 75
      ELSE IF (has_black \/ has_lgbtq) /\ has_uk THEN 40
      ELSE IF has_black \/ has_lgbtq THEN 40
      ELSE 10

\* the keyword rules of _quick_relevance_check on the lower-cased text
KeywordScore(text_lower) ==
  LET has_black == AnyIn(black_keywords, text_lower)
      has_lgbtq == AnyIn(lgbtq_keywords, text_lower)
      has_uk    == AnyIn(uk_keywords, text_lower)
  IN  IF NegativeRejects(text_lower) THEN 15
      ELSE IF \E k \in 1..Len(high_relevance_keywords) :
                Contains(high_relevance_keywords[k], text_lower)
      THEN 95
      ELSE IF has_black /\ has_lgbtq /\ has_uk THEN 85
      ELSE IF has_black /\ has_lgbtq THEN 60
      ELSE IF (has_black \/ has_lgbtq) /\ has_uk THEN 50
      ELSE IF has_black \/ has_lgbtq THEN 25
      ELSE 10

News_quick_relevance_check(text, url) ==
  LET text_lower == lower(text)
  IN  IF url # "" /\ ~News_is_domain_acceptable(url)
      THEN DomainRejected
      ELSE KeywordScore(text_lower)

----------------------------------------------------------------------------
(* NewsResearchAgent.research *)

SearchResult(title, snippet, url) ==
  [title |-> title, snippet |-> snippet, url |-> url]

\* Results the search backend may return for the news queries
NewsPool ==
  { SearchResult("Black queer film night", "",
                 "https://www.outsavvy.com/e/1"),
    SearchResult("Black history meets gay pride in Leeds", "",
                 "https://www.pinknews.co.uk/2026/01/07/leeds"),
    SearchResult("African and Caribbean voices", "A lesbian anthology",
                 "https://example.org/voices"),
    SearchResult("Pride march returns to Glasgow", "",
                 "https://www.bbc.co.uk/news/pride"),
    SearchResult("Black queer UK community thread", "",
                 "https://WWW.Reddit.com/r/blackqueer"),
    SearchResult("Gay film about Black London", "",
                 "https://example.org/film"),
    SearchResult("Windrush exhibition opens", "",
                 "https://example.org/windrush") }

MaxResults == 2

\* multi_search returns each URL once (search.py, seen_urls)
UniqueUrlSeqs(pool, n) ==
  {s \in UNION {[1..k -> pool] : k \in 0..n} :
     \A i, j \in DOMAIN s : i # j => s[i].url # s[j].url}

\* What analyze_relevance may return: the parsed JSON object of the model.
\* kind says what its "relevance_score" holds: a number, nothing (the key is
\* absent) or a value that is no number (a string, null).
OracleScores == {-5, 74, 75, 150}

Analyses ==
  {[kind |-> "number", relevance_score |-> s, reasoning |-> "oracle"] :
     s \in OracleScores}
  \cup {[kind |-> "absent", relevance_score |-> 0, reasoning |-> "oracle"],
        [kind |-> "text", relevance_score |-> 0, reasoning |-> "oracle"]}

QuickFilterFloor == 45

HighConfidence == 80

\* f"{result.title} {result.snippet}"
CombinedText(result) == result.title \o " " \o result.snippet

\* elif quick_score >= 45
PassesQuickFilter(quick_score) == quick_score >= QuickFilterFloor

\* mutant: the band once scored 75 (now 60) still counts as high confidence
SkipsLLM_Lenient(quick_score) == quick_score >= 60

\* if quick_score >= 80: skip the LLM
SkipsLLM(quick_score) == quick_score >= HighConfidence

\* mutant: the threshold itself is not accepted
OracleAccepts_Strict(score) == score > relevance_threshold

\* if score >= relevance_threshold
OracleAccepts(score) == score >= relevance_threshold

\* mutant: every candidate that passed the quick filter is kept on failure
FallbackKeeps_Floor(quick_score) == quick_score >= QuickFilterFloor

\* except: if quick_score >= relevance_threshold
FallbackKeeps(quick_score) == quick_score >= relevance_threshold

\* Phase 2 on one result: where it goes and with what
QuickFilter(result) ==
  LET quick_score ==
        News_quick_relevance_check(CombinedText(result), result.url)
  IN  IF quick_score = DomainRejected
      THEN [to |-> "rejected", result |-> result, quick_score |-> quick_score,
            reason |-> "domain_blacklist"]
      ELSE IF PassesQuickFilter(quick_score)
      THEN [to |-> "candidates", result |-> result,
            quick_score |-> quick_score, reason |-> ""]
      ELSE [to |-> "rejected", result |-> result, quick_score |-> quick_score,
            reason |-> "low_score_" \o ToString(quick_score)]

\* phase 2 on each result of the pool
QuickFilterOf == [result \in NewsPool |-> QuickFilter(result)]

DiscoveredArticle(result, relevance_score, category, reasoning) ==
  [title |-> result.title, url |-> result.url, snippet |-> result.snippet,
   relevance_score |-> relevance_score, category |-> category,
   reasoning |-> reasoning]

\* list.sort(key=relevance_score, reverse=True): stable, highest first
RECURSIVE SortByScore(_)
SortByScore(items) ==
  IF items = <<>> THEN <<>>
  ELSE LET sorted == SortByScore(SubSeq(items, 1, Len(items) - 1))
           x      == items[Len(items)]
           \* x goes after every item whose score is not below its own
           before == {k \in 1..Len(sorted) :
                        \A m \in 1..k :
                          sorted[m].relevance_score >= x.relevance_score}
           at     == Cardinality(before)
       IN  SubSeq(sorted, 1, at) \o <<x>> \o SubSeq(sorted, at + 1, Len(sorted))

\* The search returns and phase 2 filters every result; with no candidate
\* left the method sorts the empty list and returns.
NewsSearchAndFilter ==
  /\ n_pc = "start"
  /\ \E results \in UniqueUrlSeqs(NewsPool, MaxResults) :
       LET routed == [k \in DOMAIN results |-> QuickFilterOf[results[k]]]
           cands  == SelectSeq(routed, LAMBDA r : r.to = "candidates")
       IN  /\ all_results' = results
           /\ candidates' = cands
           /\ rejected' = SelectSeq(routed, LAMBDA r : r.to = "rejected")
           /\ n_pc' = IF cands = <<>> THEN "done" ELSE "analyze"
  /\ n_i' = 1
  /\ discovered' = <<>>
  /\ UNCHANGED oracle_log
  /\ UnchangedExcept({"news"})

\* The end of one phase 3 iteration: the next candidate, or the sort and return
NewsStep(found) ==
  /\ n_i' = n_i + 1
  /\ IF n_i = Len(candidates)
     THEN /\ discovered' = SortByScore(found)
          /\ n_pc' = "done"
     ELSE /\ discovered' = found
          /\ n_pc' = "analyze"
  /\ UNCHANGED <<all_results, candidates, rejected>>
  /\ UnchangedExcept({"news"})

\* if quick_score >= 80: accepted on the keyword score, no LLM call
NewsAutoAccept ==
  /\ n_pc = "analyze"
  /\ LET c == candidates[n_i]
     IN  /\ SkipsLLM(c.quick_score)
         /\ NewsStep(Append(discovered,
              DiscoveredArticle(c.result, c.quick_score, "news",
                                "High-confidence keyword match")))
  /\ UNCHANGED oracle_log

\* the except branch: keep the candidate on its keyword score, or drop it
Fallback(c) ==
  IF FallbackKeeps(c.quick_score)
  THEN Append(discovered, DiscoveredArticle(c.result, c.quick_score, "news", ""))
  ELSE discovered

\* analyze_relevance returns an object
NewsOracleReturns ==
  /\ n_pc = "analyze"
  /\ LET c == candidates[n_i]
     IN  /\ ~SkipsLLM(c.quick_score)
         /\ \E analysis \in Analyses :
              /\ oracle_log' = Append(oracle_log,
                   [url |-> c.result.url, quick_score |-> c.quick_score,
                    outcome |-> "returned", analysis |-> analysis])
              /\ IF analysis.kind = "text"
                 THEN \* score >= relevance_threshold raises TypeError
                      NewsStep(Fallback(c))
                 ELSE LET score == IF analysis.kind = "absent" THEN 0
                                   ELSE analysis.relevance_score
                      IN  IF OracleAccepts(score)
                          THEN NewsStep(Append(discovered,
                                 DiscoveredArticle(c.result, score, "news",
                                                   analysis.reasoning)))
                          ELSE NewsStep(discovered)

\* analyze_relevance raises (the API fails, the reply is no JSON)
NewsOracleRaises ==
  /\ n_pc = "analyze"
  /\ LET c == candidates[n_i]
     IN  /\ ~SkipsLLM(c.quick_score)
         /\ oracle_log' = Append(oracle_log,
              [url |-> c.result.url, quick_score |-> c.quick_score,
               outcome |-> "raised",
               analysis |-> [kind |-> "absent", relevance_score |-> 0,
                             reasoning |-> ""]])
         /\ NewsStep(Fallback(c))

InitNews ==
  /\ n_pc = "start"
  /\ all_results = <<>>
  /\ candidates = <<>>
  /\ rejected = <<>>
  /\ n_i = 0
  /\ discovered = <<>>
  /\ oracle_log = <<>>
  /\ AllOffExcept({"news"})

NextNews ==
  \/ NewsSearchAndFilter
  \/ NewsAutoAccept
  \/ NewsOracleReturns
  \/ NewsOracleRaises

SpecNews == InitNews /\ [][NextNews]_vars

----------------------------------------------------------------------------
(* Claims about NewsResearchAgent.research *)

KeywordScoreOf(result) == QuickFilterOf[result].quick_score

ArticlesOf(url) == {k \in DOMAIN discovered : discovered[k].url = url}

CallsFor(url) == {k \in DOMAIN oracle_log : oracle_log[k].url = url}

\* C7: routing depends on the keyword score alone. A result scoring below
\* the floor is never emitted and never sent to the oracle; a result scoring
\* at or above the high-confidence bound is emitted once with its keyword
\* score unchanged and the reasoning "High-confidence keyword match", and the
\* oracle is never invoked for it; the oracle is invoked, once, exactly for
\* the results that score between the floor and the high-confidence bound.
C7_Routing ==
  \A k \in DOMAIN all_results :
    LET r == all_results[k]
        q == KeywordScoreOf(r)
    IN  /\ q < QuickFilterFloor =>
             ArticlesOf(r.url) = {} /\ CallsFor(r.url) = {}
        /\ q >= HighConfidence =>
             /\ CallsFor(r.url) = {}
             /\ n_pc = "done" =>
                  /\ Cardinality(ArticlesOf(r.url)) = 1
                  /\ \A a \in ArticlesOf(r.url) :
                       /\ discovered[a].relevance_score = q
                       /\ discovered[a].reasoning = "High-confidence keyword match"
        /\ CallsFor(r.url) # {} => q >= QuickFilterFloor /\ q < HighConfidence
        /\ Cardinality(CallsFor(r.url)) <= 1
        /\ (n_pc = "done" /\ q >= QuickFilterFloor /\ q < HighConfidence) =>
             Cardinality(CallsFor(r.url)) = 1

\* a finished run that accepted one result on its keyword score and sent
\* another to the oracle
C7_Witness ==
  /\ n_pc = "done"
  /\ \E k \in DOMAIN discovered :
       discovered[k].reasoning = "High-confidence keyword match"
  /\ oracle_log # <<>>

C9_OneScoringPath ==
  /\ \A k \in DOMAIN oracle_log :
       LET e == oracle_log[k]
           accepted == /\ e.analysis.kind = "number"
                       /\ e.analysis.relevance_score >= relevance_threshold
       IN  e.outcome = "returned" =>
             /\ ArticlesOf(e.url) # {} <=> accepted
             /\ \A a \in ArticlesOf(e.url) :
                  discovered[a].relevance_score = e.analysis.relevance_score
  /\ \A a \in DOMAIN discovered :
       LET url  == discovered[a].url
           q    == KeywordScoreOf(CHOOSE r \in NewsPool : r.url = url)
           byKeyword == q >= HighConfidence /\ CallsFor(url) = {}
           byOracle  == \E c \in CallsFor(url) :
                          /\ oracle_log[c].outcome = "returned"
                          /\ oracle_log[c].analysis.kind = "number"
           byFallback == \E c \in CallsFor(url) :
                          \/ oracle_log[c].outcome = "raised"
                          \/ oracle_log[c].analysis.kind = "text"
       IN  /\ Cardinality({b \in {"keyword", "oracle", "fallback"} :
                 \/ b = "keyword" /\ byKeyword
                 \/ b = "oracle" /\ byOracle
                 \/ b = "fallback" /\ byFallback}) = 1
           /\ byKeyword => discovered[a].relevance_score = q
           /\ byFallback => discovered[a].relevance_score = q
           /\ byOracle =>
                \E c \in CallsFor(url) :
                  discovered[a].relevance_score =
                    oracle_log[c].analysis.relevance_score

\* the oracle returned exactly the threshold for a borderline candidate and
\* the finished run holds the candidate with that score
C9_Witness ==
  /\ n_pc = "done"
  /\ \E k \in DOMAIN oracle_log, a \in DOMAIN discovered :
       /\ oracle_log[k].outcome = "returned"
       /\ oracle_log[k].analysis.kind = "number"
       /\ oracle_log[k].analysis.relevance_score = relevance_threshold
       /\ discovered[a].url = oracle_log[k].url
       /\ discovered[a].relevance_score = relevance_threshold
       /\ oracle_log[k].quick_score # relevance_threshold

----------------------------------------------------------------------------
(* The scorer as a pure function of bounded inputs *)

\* Fragments a text is assembled from; each carries one keyword class
Fragments == <<"Film", "QTIPOC", "African", "Gay", "Leeds", "news">>

MaxFragments == 5

\* the fragments at the positions of pick, in order, joined by blanks
RECURSIVE JoinPicked(_, _)
JoinPicked(pick, k) ==
  IF k > Len(Fragments) THEN ""
  ELSE LET tail == JoinPicked(pick, k + 1)
       IN  IF k \in pick
           THEN Fragments[k] \o (IF tail = "" THEN "" ELSE " " \o tail)
           ELSE tail

RECURSIVE upper(_)
upper(s) ==
  IF s = "" THEN ""
  ELSE LET c == SubSeq(s, 1, 1)
           up == IF \E u \in DOMAIN LowerTable : LowerTable[u] = c
                 THEN CHOOSE u \in DOMAIN LowerTable : LowerTable[u] = c
                 ELSE c
       IN  up \o upper(SubSeq(s, 2, Len(s)))

SampleTexts ==
  LET picks == {p \in SUBSET (1..Len(Fragments)) : Cardinality(p) <= MaxFragments}
      plain == {JoinPicked(p, 1) : p \in picks}
  IN  plain \cup {lower(t) : t \in plain} \cup {upper(t) : t \in plain}

SampleUrls ==
  {"", "https://www.pinknews.co.uk/2026/01/07/story",
   "https://EN.Wikipedia.org/wiki/UK_Black_Pride"}

InitScore ==
  /\ q_pc = "call"
  /\ q_text \in SampleTexts
  /\ q_url \in SampleUrls
  /\ q_score = 0
  /\ AllOffExcept({"score"})

QuickCheck ==
  /\ q_pc = "call"
  /\ q_score' = News_quick_relevance_check(q_text, q_url)
  /\ q_pc' = "returned"
  /\ UNCHANGED <<q_text, q_url>>
  /\ UnchangedExcept({"score"})

NextScore == QuickCheck

SpecScore == InitScore /\ [][NextScore]_vars

----------------------------------------------------------------------------
(* EventsDiscoveryAgent *)

\* Optional[T]: None is the empty tuple, a value x is <<x>>
None == <<>>

Some(x) == <<x>>

Whitespace == {" ", "\t", "\n", "\r"}

\* str.strip()
RECURSIVE strip(_)
strip(s) ==
  IF s = "" THEN ""
  ELSE IF SubSeq(s, 1, 1) \in Whitespace THEN strip(SubSeq(s, 2, Len(s)))
  ELSE IF SubSeq(s, Len(s), Len(s)) \in Whitespace
       THEN strip(SubSeq(s, 1, Len(s) - 1))
  ELSE s

\* EventsDiscoveryAgent._is_domain_acceptable: the whitelist and the social
\* platforms return True, and so does everything else that is not blacklisted
Events_is_domain_acceptable(url) ==
  LET domain == _extract_domain(lower(url))
  IN  ~AnyIn(domain_blacklist, domain)

non_event_terms ==
  <<"musician", "band", "game", "character", "tv show", "movie", "film",
    "wikipedia", "tutorial", "guide", "tips", "tricks">>

clear_event_terms ==
  <<"event", "party", "night", "club", "gather", "show", "performance",
    "live", "date:">>

event_terms ==
  <<"event", "party", "night", "club", "gathering", "gathering", "show",
    "performance", "live", "happening", "gig", "club night", "celebration",
    "festival", "pride">>

_is_likely_event(text) ==
  LET text_lower == lower(text)
  IN  IF AnyIn(non_event_terms, text_lower)
         /\ ~AnyIn(clear_event_terms, text_lower)
      THEN FALSE
      ELSE AnyIn(event_terms, text_lower)

\* the relevance a search result that passed the three filters is given
EventRelevance(text_lower) ==
  IF AnyIn(high_relevance_keywords, text_lower) THEN 95
  ELSE IF /\ AnyIn(black_keywords, text_lower)
          /\ AnyIn(lgbtq_keywords, text_lower)
          /\ AnyIn(uk_keywords, text_lower) THEN 85
  ELSE 75

\* the three filters of discover_from_search: "" when the result passes
EventFilter(result) ==
  LET text_lower == lower(CombinedText(result))
  IN  IF ~Events_is_domain_acceptable(result.url) THEN "domain_blacklist"
      ELSE IF ~_is_likely_event(CombinedText(result)) THEN "not_event"
      ELSE IF ~(/\ AnyIn(black_keywords, text_lower)
                /\ AnyIn(lgbtq_keywords, text_lower)) THEN "weak_keywords"
      ELSE ""

\* mutant: any reply of ten characters is taken for a date
ExtractDate_LengthOnly(response) ==
  LET date_str == lower(strip(response))
  IN  IF date_str = "none" \/ date_str = "" THEN None
      ELSE IF Len(date_str) = 10 THEN Some(date_str)
      ELSE None

\* _extract_date_from_text on the reply of llm.complete
ExtractDate(response) ==
  LET date_str == lower(strip(response))
  IN  IF date_str = "none" \/ date_str = "" THEN None
      ELSE IF /\ Len(date_str) = 10
              /\ SubSeq(date_str, 5, 5) = "-"
              /\ SubSeq(date_str, 8, 8) = "-" THEN Some(date_str)
      ELSE None

DiscoveredEvent(name, url, venue, date, source_platform, relevance_score) ==
  [name |-> name, url |-> url, venue |-> venue, date |-> date,
   source_platform |-> source_platform, relevance_score |-> relevance_score]

ScrapedEvent(name, url, venue, date, source_platform) ==
  [name |-> name, url |-> url, venue |-> venue, date |-> date,
   source_platform |-> source_platform]

\* mutant: URLs are compared after lower-casing
RECURSIVE DedupeLoop_IgnoreCase(_, _)
DedupeLoop_IgnoreCase(events, seen_urls) ==
  IF events = <<>> THEN <<>>
  ELSE LET event == Head(events)
       IN  IF lower(event.url) \notin seen_urls
           THEN <<event>> \o DedupeLoop_IgnoreCase(Tail(events),
                               seen_urls \cup {lower(event.url)})
           ELSE DedupeLoop_IgnoreCase(Tail(events), seen_urls)

\* mutant: a kept event is put in front of the list, as a stack would
RECURSIVE DedupeLoop_Prepend(_, _)
DedupeLoop_Prepend(events, seen_urls) ==
  IF events = <<>> THEN <<>>
  ELSE LET event == Head(events)
       IN  IF event.url \notin seen_urls
           THEN DedupeLoop_Prepend(Tail(events), seen_urls \cup {event.url})
                \o <<event>>
           ELSE DedupeLoop_Prepend(Tail(events), seen_urls)

\* for event in all_events: if event.url not in seen_urls: add, append
RECURSIVE DedupeLoop(_, _)
DedupeLoop(events, seen_urls) ==
  IF events = <<>> THEN <<>>
  ELSE LET event == Head(events)
       IN  IF event.url \notin seen_urls
           THEN <<event>> \o DedupeLoop(Tail(events), seen_urls \cup {event.url})
           ELSE DedupeLoop(Tail(events), seen_urls)

\* Results the search backend may return for the event queries
EventSearchPool ==
  { SearchResult("Black queer party night London", "",
                 "https://outsavvy.com/event/bbz"),
    SearchResult("African and Caribbean pride festival", "",
                 "https://outsavvy.com/events/2026-03-14-festival"),
    SearchResult("UK Black Pride event", "",
                 "https://en.wikipedia.org/wiki/UK_Black_Pride"),
    SearchResult("Black queer musician biography", "",
                 "https://example.org/bio"),
    SearchResult("Pride party in Leeds", "",
                 "https://example.org/leeds") }

\* Events the platform scrapers may return: the links are taken from the
\* scraped pages as they are, whatever their host
ScrapePool ==
  { ScrapedEvent("BBZ", "https://outsavvy.com/event/bbz",
                 Some("The Yard"), Some("2026-03-01"), "OutSavvy"),
    ScrapedEvent("BBZ London", "https://outsavvy.com/event/bbz/",
                 Some("The Yard"), None, "OutSavvy"),
    ScrapedEvent("BBZ party", "https://OutSavvy.com/event/bbz",
                 None, None, "Eventbrite"),
    ScrapedEvent("BBZ tickets", "https://outsavvy.com/event/bbz?ref=home",
                 None, None, "Eventbrite"),
    ScrapedEvent("Pride stream", "https://www.twitch.tv/event/pride",
                 None, None, "Moonlight Experiences") }

MaxScraped == 3

\* the filter outcome and the relevance of each result of the pool
EventFilterOf == [result \in EventSearchPool |-> EventFilter(result)]

EventRelevanceOf ==
  [result \in EventSearchPool |-> EventRelevance(lower(CombinedText(result)))]

\* What llm.complete may answer to the date prompt
DateResponses == {"2026-01-07", " None\n", "7 January 2026"}

\* One iteration of the loop of discover_from_search ends
SearchStep ==
  /\ s_i' = s_i + 1
  /\ s_pc' = IF s_i = Len(s_results) THEN "returned" ELSE "loop"
  /\ UNCHANGED <<e_pc, s_results, c_pc, c_events, all_events, unique_events>>
  /\ UnchangedExcept({"events"})

\* search_qtipoc_events returns; multi_search holds each URL once
SearchReturns ==
  /\ s_pc = "start"
  /\ \E results \in UniqueUrlSeqs(EventSearchPool, MaxResults) :
       /\ s_results' = results
       /\ s_pc' = IF results = <<>> THEN "returned" ELSE "loop"
  /\ s_i' = 1
  /\ UNCHANGED <<e_pc, s_events, s_rejected, date_log, c_pc, c_events,
                 all_events, unique_events>>
  /\ UnchangedExcept({"events"})

\* a result fails one of the three filters
SearchFilterRejects ==
  /\ s_pc = "loop"
  /\ LET result == s_results[s_i]
     IN  /\ EventFilterOf[result] # ""
         /\ s_rejected' = Append(s_rejected,
              [result |-> result, reason |-> EventFilterOf[result]])
  /\ UNCHANGED <<s_events, date_log>>
  /\ SearchStep

\* the event a result that passed the filters becomes
SearchEvent(result, extracted_date) ==
  DiscoveredEvent(result.title, result.url, None, extracted_date,
                  "Web Search", EventRelevanceOf[result])

\* a result passes and llm.complete answers the date prompt
SearchDateReturns ==
  /\ s_pc = "loop"
  /\ LET result == s_results[s_i]
     IN  /\ EventFilterOf[result] = ""
         /\ \E response \in DateResponses :
              /\ date_log' = Append(date_log,
                   [url |-> result.url, outcome |-> "returned",
                    response |-> response])
              /\ s_events' = Append(s_events,
                   SearchEvent(result, ExtractDate(response)))
  /\ UNCHANGED s_rejected
  /\ SearchStep

\* a result passes and llm.complete raises: the date is None
SearchDateRaises ==
  /\ s_pc = "loop"
  /\ LET result == s_results[s_i]
     IN  /\ EventFilterOf[result] = ""
         /\ date_log' = Append(date_log,
              [url |-> result.url, outcome |-> "raised", response |-> ""])
         /\ s_events' = Append(s_events, SearchEvent(result, None))
  /\ UNCHANGED s_rejected
  /\ SearchStep

\* scrape_all_platforms returns; it holds each URL once (url_hash)
ScrapeReturns ==
  /\ c_pc = "start"
  /\ \E scraped \in UniqueUrlSeqs(ScrapePool, MaxScraped) :
       c_events' = [k \in DOMAIN scraped |->
                      DiscoveredEvent(scraped[k].name, scraped[k].url,
                                      scraped[k].venue, scraped[k].date,
                                      scraped[k].source_platform, 75)]
  /\ c_pc' = "returned"
  /\ UNCHANGED <<e_pc, s_pc, s_results, s_i, s_events, s_rejected, date_log,
                 all_events, unique_events>>
  /\ UnchangedExcept({"events"})

\* the browser cannot be started or scrape_all_platforms raises
ScrapeRaises ==
  /\ c_pc = "start"
  /\ c_pc' = "raised"
  /\ UNCHANGED <<e_pc, s_pc, s_results, s_i, s_events, s_rejected, date_log,
                 c_events, all_events, unique_events>>
  /\ UnchangedExcept({"events"})

\* discover_from_search raises out of its loop or before it (a result
\* without a URL makes _is_domain_acceptable raise): gather hands the
\* exception to discover_all in place of the list
SearchRaises ==
  /\ s_pc \in {"start", "loop"}
  /\ s_pc' = "raised"
  /\ UNCHANGED <<e_pc, s_results, s_i, s_events, s_rejected, date_log, c_pc,
                 c_events, all_events, unique_events>>
  /\ UnchangedExcept({"events"})

\* mutant: what a branch had collected is merged whether it returned or not
BranchList_Collected(pc, events) == events

\* isinstance(results, list): the list of a branch that returned, nothing
\* of a branch that raised
BranchList(pc, events) == IF pc = "returned" THEN events ELSE <<>>

\* mutant: the scrape results are merged before the search results
MergedLists_ScrapeFirst(search_results, scrape_results) ==
  scrape_results \o search_results

\* all_events.extend(search_results), then all_events.extend(scrape_results)
MergedLists(search_results, scrape_results) ==
  search_results \o scrape_results

\* gather has both outcomes: merge what is a list, search first, and
\* deduplicate by URL
MergeAndDedupe ==
  /\ e_pc = "gather"
  /\ s_pc \in {"returned", "raised"}
  /\ c_pc \in {"returned", "raised"}
  /\ LET merged == MergedLists(BranchList(s_pc, s_events),
                               BranchList(c_pc, c_events))
     IN  /\ all_events' = merged
         /\ unique_events' = DedupeLoop(merged, {})
  /\ e_pc' = "done"
  /\ UNCHANGED <<s_pc, s_results, s_i, s_events, s_rejected, date_log, c_pc,
                 c_events>>
  /\ UnchangedExcept({"events"})

InitEvents ==
  /\ e_pc = "gather"
  /\ s_pc = "start"
  /\ s_results = <<>>
  /\ s_i = 0
  /\ s_events = <<>>
  /\ s_rejected = <<>>
  /\ date_log = <<>>
  /\ c_pc = "start"
  /\ c_events = <<>>
  /\ all_events = <<>>
  /\ unique_events = <<>>
  /\ AllOffExcept({"events"})

NextEvents ==
  \/ SearchReturns
  \/ SearchFilterRejects
  \/ SearchDateReturns
  \/ SearchDateRaises
  \/ SearchRaises
  \/ ScrapeReturns
  \/ ScrapeRaises
  \/ MergeAndDedupe

SpecEvents == InitEvents /\ [][NextEvents]_vars

----------------------------------------------------------------------------
(* Claims about EventsDiscoveryAgent.discover_all *)

\* the positions of a list that carry a URL
PositionsOf(events, url) == {k \in DOMAIN events : events[k].url = url}

FirstPositionOf(events, url) ==
  CHOOSE k \in PositionsOf(events, url) :
    \A m \in PositionsOf(events, url) : k <= m

\* a URL without its query string and trailing slash, in lower case
Normalised(url) ==
  LET q      == Find("?", url)
      path   == IF q = 0 THEN url ELSE SubSeq(url, 1, q - 1)
      noTail == IF EndsWith(path, "/") THEN SubSeq(path, 1, Len(path) - 1)
                ELSE path
  IN  lower(noTail)

\* C1: the list discover_all returns holds exactly one item for each distinct
\* URL string of the merged list, and that item is the first merged item
\* carrying the URL, with its name, venue and date. URLs are compared as
\* strings, so URLs that differ in letter case, a trailing slash or a query
\* string are each kept.
C1_DedupFirstOccurrence ==
  e_pc = "done" =>
    /\ \A k \in DOMAIN all_events :
         LET url == all_events[k].url
         IN  /\ Cardinality(PositionsOf(unique_events, url)) = 1
             /\ \A j \in PositionsOf(unique_events, url) :
                  unique_events[j] = all_events[FirstPositionOf(all_events, url)]
    /\ \A j \in DOMAIN unique_events :
         PositionsOf(all_events, unique_events[j].url) # {}

\* a finished run whose merged list held one URL twice under different names,
\* and three URLs that differ only in case, trailing slash or query string,
\* all three returned
C1_Witness ==
  /\ e_pc = "done"
  /\ \E i, k \in DOMAIN all_events :
       /\ i < k
       /\ all_events[i].url = all_events[k].url
       /\ all_events[i].name # all_events[k].name
  /\ \E a, b, c \in DOMAIN unique_events :
       /\ a < b /\ b < c
       /\ Normalised(unique_events[a].url) = Normalised(unique_events[b].url)
       /\ Normalised(unique_events[b].url) = Normalised(unique_events[c].url)

RECURSIVE IsSubsequence(_, _)
IsSubsequence(a, b) ==
  IF a = <<>> THEN TRUE
  ELSE IF b = <<>> THEN FALSE
  ELSE IF Head(a) = Head(b) THEN IsSubsequence(Tail(a), Tail(b))
  ELSE IsSubsequence(a, Tail(b))

\* C2: the deduplicated list is a subsequence of the merged list: the kept
\* items stand in the order they had in the merged list, and every returned
\* item is an item of the merged list.
C2_DedupIsSubsequence ==
  e_pc = "done" => IsSubsequence(unique_events, all_events)

\* a finished run that dropped a duplicate standing between two kept items
C2_Witness ==
  /\ e_pc = "done"
  /\ \E i, j, k \in DOMAIN all_events :
       /\ i < j /\ j < k
       /\ all_events[j].url = all_events[i].url
       /\ all_events[k].url # all_events[i].url
       /\ Len(unique_events) >= 2

\* C4: no event discover_all returns has a host that contains an entry of the
\* domain blacklist.
C4_NoBlacklistedHostReturned ==
  \A j \in DOMAIN unique_events :
    ~AnyIn(domain_blacklist, _extract_domain(lower(unique_events[j].url)))

\* the first n items of a list without those whose URL an earlier item has
RECURSIVE FirstOccurrencesUpTo(_, _)
FirstOccurrencesUpTo(events, n) ==
  IF n = 0 THEN <<>>
  ELSE LET kept == FirstOccurrencesUpTo(events, n - 1)
       IN  IF \E j \in 1..n - 1 : events[j].url = events[n].url
           THEN kept
           ELSE Append(kept, events[n])

FirstOccurrences(events) == FirstOccurrencesUpTo(events, Len(events))

BranchEnded(pc) == pc \in {"returned", "raised"}

\* C16: when exactly one of the two branches raised, discover_all returns the
\* deduplicated candidates of the other branch; when both raised it returns
\* the empty list; and once both branches have ended, however they ended,
\* discover_all goes on to return (the merge is defined, nothing is raised)
C16_BranchIsolation ==
  /\ e_pc = "done" =>
       /\ (s_pc = "raised" /\ c_pc = "returned") =>
            unique_events = FirstOccurrences(c_events)
       /\ (s_pc = "returned" /\ c_pc = "raised") =>
            unique_events = FirstOccurrences(s_events)
       /\ (s_pc = "raised" /\ c_pc = "raised") => unique_events = <<>>
  /\ (e_pc = "gather" /\ BranchEnded(s_pc) /\ BranchEnded(c_pc)) =>
       ENABLED MergeAndDedupe

\* the search branch raised after it had collected an event, the scrape
\* branch returned a list, and discover_all returned events
C16_Witness ==
  /\ e_pc = "done"
  /\ s_pc = "raised"
  /\ s_events # <<>>
  /\ c_pc = "returned"
  /\ Len(unique_events) >= 2

----------------------------------------------------------------------------
(* Claims about NewsResearchAgent._quick_relevance_check *)

\* the keyword classes of the text the scorer was called with
hasNegative      == AnyIn(negative_keywords, lower(q_text))

hasHighRelevance == AnyIn(high_relevance_keywords, lower(q_text))

hasPrimary       == AnyIn(black_keywords, lower(q_text))

hasSecondary     == AnyIn(lgbtq_keywords, lower(q_text))

hasLocale        == AnyIn(uk_keywords, lower(q_text))

\* the scorer returned a keyword score: the URL was not hard-rejected
KeywordScored == q_pc = "returned" /\ q_score # DomainRejected

Bands == <<-1, 15, 95, 85, 60, 50, 25, 10>>

\* the first rule of the list that matches the text
FirstRule ==
  IF hasNegative /\ ~hasHighRelevance THEN 2
  ELSE IF hasHighRelevance THEN 3
  ELSE IF hasPrimary /\ hasSecondary /\ hasLocale THEN 4
  ELSE IF hasPrimary /\ hasSecondary THEN 5
  ELSE IF (hasPrimary \/ hasSecondary) /\ hasLocale THEN 6
  ELSE IF hasPrimary \/ hasSecondary THEN 7
  ELSE 8

----------------------------------------------------------------------------
(* GrantResearchAgent *)

grant_high_relevance_keywords ==
  <<
    "black lgbtq", "black queer", "qtipoc", "intersectional",
    "queer people of colour", "black gay", "black trans", "community-led",
    "lived experience", "cooperative", "community ownership",
    "participatory", "co-creation"
  >>

grant_lgbtq_keywords ==
  <<
    "lgbtq", "lgbt", "queer", "gay", "trans", "transgender", "pride",
    "sexual orientation", "gender identity", "nonbinary"
  >>

grant_black_keywords ==
  <<
    "black", "african", "caribbean", "afro", "diaspora", "ethnic minority",
    "bame", "people of colour", "poc", "global majority", "racialised"
  >>

grant_arts_keywords ==
  <<
    "arts", "culture", "creative", "participatory", "co-creation",
    "storytelling", "media", "film", "music", "performance"
  >>

grant_community_wealth_keywords ==
  <<
    "cooperative", "co-op", "community ownership", "social enterprise",
    "community wealth", "democratic", "mutual", "worker-owned"
  >>

grant_relevance_threshold == 60

GrantFloor == 40

GrantHighConfidence == 75

\* min(a, b)
min(a, b) == IF a <= b THEN a ELSE b

\* GrantResearchAgent._quick_relevance_check
Grant_quick_relevance_check(text) ==
  LET text_lower == lower(text)
      has_lgbtq == AnyIn(grant_lgbtq_keywords, text_lower)
      has_black == AnyIn(grant_black_keywords, text_lower)
      has_arts  == AnyIn(grant_arts_keywords, text_lower)
      has_coop  == AnyIn(grant_community_wealth_keywords, text_lower)
      aligned   == IF has_lgbtq /\ has_black THEN 90
                   ELSE IF has_lgbtq THEN 30 + 25
                   ELSE IF has_black THEN 30 + 25
                   ELSE 30
      score     == aligned
                   + (IF has_arts THEN 15 ELSE 0)
                   + (IF has_coop THEN 15 ELSE 0)
                   + (IF \/ Contains("open", text_lower)
                         \/ Contains("deadline", text_lower)
                         \/ Contains("apply", text_lower) THEN 10 ELSE 0)
  IN  IF AnyIn(grant_high_relevance_keywords, text_lower) THEN 95
      ELSE min(100, score)

\* Results the search backend may return for the grant queries
GrantPool ==
  { SearchResult("Fund for Black LGBTQ organisations", "",
                 "https://example.org/fund"),
    SearchResult("LGBT arts grants", "deadline in March",
                 "https://www.artscouncil.org.uk/lgbt"),
    SearchResult("Pride arts grants", "",
                 "https://example.org/pride-arts"),
    SearchResult("Pride small grants", "",
                 "https://example.org/pride-small"),
    SearchResult("Village hall repair fund", "",
                 "https://example.org/hall") }

\* What _analyze_grant_with_llm may return: {} when llm.complete raised or
\* the reply held no JSON object, else the parsed object, whose
\* "relevance_score" is a number or null
GrantScores == {-5, 88, 150}

GrantAnalyses ==
  {[kind |-> "empty", relevance_score |-> 0],
   [kind |-> "null", relevance_score |-> 0]}
  \cup {[kind |-> "number", relevance_score |-> n] : n \in GrantScores}

\* analysis.get("relevance_score", quick_score)
GrantScoreFrom(analysis, quick_score) ==
  IF analysis.kind = "empty" THEN Some(quick_score)
  ELSE IF analysis.kind = "null" THEN None
  ELSE Some(analysis.relevance_score)

DiscoveredGrant(result, relevance_score, fit_reasoning) ==
  [title |-> result.title, url |-> result.url,
   relevance_score |-> relevance_score, fit_reasoning |-> fit_reasoning]

GrantQuickScoreOf ==
  [result \in GrantPool |-> Grant_quick_relevance_check(CombinedText(result))]

\* list.sort compares the keys of a list of two or more items; None does not
\* compare with anything
SortRaises(items) ==
  /\ Len(items) >= 2
  /\ \E k \in DOMAIN items : items[k].relevance_score = None

\* list.sort(key=relevance_score, reverse=True) on scores that are numbers
SortGrants(items) ==
  LET keyed  == [k \in DOMAIN items |->
                   [item |-> items[k],
                    relevance_score |-> IF items[k].relevance_score = None
                                        THEN 0
                                        ELSE items[k].relevance_score[1]]]
      sorted == SortByScore(keyed)
  IN  [k \in DOMAIN sorted |-> sorted[k].item]

\* The search returns and phase 2 keeps the results scoring 40 or more; with
\* no candidate the method sorts the empty list and returns
GrantSearchAndFilter ==
  /\ g_pc = "start"
  /\ \E results \in UniqueUrlSeqs(GrantPool, MaxResults) :
       LET scored == [k \in DOMAIN results |->
                        [result |-> results[k],
                         quick_score |-> GrantQuickScoreOf[results[k]]]]
           cands  == SelectSeq(scored, LAMBDA c : c.quick_score >= GrantFloor)
       IN  /\ g_results' = results
           /\ g_candidates' = cands
           /\ g_pc' = IF cands = <<>> THEN "done" ELSE "analyze"
  /\ g_i' = 1
  /\ UNCHANGED <<g_discovered, g_log>>
  /\ UnchangedExcept({"grants"})

\* The end of one phase 3 iteration: the next candidate, or the sort, which
\* returns the list or raises TypeError out of research
GrantStep(found) ==
  /\ g_i' = g_i + 1
  /\ IF g_i < Len(g_candidates)
     THEN g_discovered' = found /\ g_pc' = "analyze"
     ELSE IF SortRaises(found)
     THEN g_discovered' = found /\ g_pc' = "raised"
     ELSE g_discovered' = SortGrants(found) /\ g_pc' = "done"
  /\ UNCHANGED <<g_results, g_candidates>>
  /\ UnchangedExcept({"grants"})

\* if quick_score >= 75: the LLM analysis fills in the grant
GrantAnalyzed ==
  /\ g_pc = "analyze"
  /\ LET c == g_candidates[g_i]
     IN  /\ c.quick_score >= GrantHighConfidence
         /\ \E analysis \in GrantAnalyses :
              /\ g_log' = Append(g_log,
                   [url |-> c.result.url, quick_score |-> c.quick_score,
                    analysis |-> analysis])
              /\ GrantStep(Append(g_discovered,
                   DiscoveredGrant(c.result,
                                   GrantScoreFrom(analysis, c.quick_score),
                                   "")))

\* elif quick_score >= relevance_threshold: kept on the keyword score
GrantKeywordAccept ==
  /\ g_pc = "analyze"
  /\ LET c == g_candidates[g_i]
     IN  /\ c.quick_score < GrantHighConfidence
         /\ c.quick_score >= grant_relevance_threshold
         /\ GrantStep(Append(g_discovered,
              DiscoveredGrant(c.result, Some(c.quick_score),
                              "Keyword match - needs manual review")))
  /\ UNCHANGED g_log

\* a candidate below relevance_threshold is left out
GrantSkipped ==
  /\ g_pc = "analyze"
  /\ LET c == g_candidates[g_i]
     IN  /\ c.quick_score < GrantHighConfidence
         /\ c.quick_score < grant_relevance_threshold
         /\ GrantStep(g_discovered)
  /\ UNCHANGED g_log

InitGrants ==
  /\ g_pc = "start"
  /\ g_results = <<>>
  /\ g_candidates = <<>>
  /\ g_i = 0
  /\ g_discovered = <<>>
  /\ g_log = <<>>
  /\ AllOffExcept({"grants"})

NextGrants ==
  \/ GrantSearchAndFilter
  \/ GrantAnalyzed
  \/ GrantKeywordAccept
  \/ GrantSkipped

SpecGrants == InitGrants /\ [][NextGrants]_vars

----------------------------------------------------------------------------
(* Claims about the oracle's replies *)

InRange(score) == 0 <= score /\ score <= 100

\* C3: every article, event and grant a pipeline holds for return has a
\* relevance score between 0 and 100, whatever the oracle replied.
C3_ScoresInRange ==
  /\ \A k \in DOMAIN discovered : InRange(discovered[k].relevance_score)
  /\ \A k \in DOMAIN unique_events : InRange(unique_events[k].relevance_score)
  /\ \A k \in DOMAIN g_discovered :
       /\ g_discovered[k].relevance_score # None
       /\ InRange(g_discovered[k].relevance_score[1])

\* C10: no reply of the oracle for one grant makes GrantResearchAgent.research
\* raise: the run goes through every candidate and returns.
C10_GrantResearchNeverRaises == g_pc # "raised"

----------------------------------------------------------------------------
(* LLMClient.complete and complete_json *)

\* @retry(stop=stop_after_attempt(3), ...)
MaxAttempts == 3

\* How a call of the backend may fail
BackendErrors == {"RateLimitError", "APIConnectionError", "APITimeoutError"}

\* What the backend may answer; parses says whether json.loads accepts the text
Replies ==
  { [text |-> "{\"relevance_score\": 80}", parses |-> TRUE],
    [text |-> "{\"relevance_score\": 80", parses |-> FALSE],
    [text |-> "Here is the analysis you asked for", parses |-> FALSE],
    [text |-> "", parses |-> FALSE] }

\* mutant: one more attempt is made before the retry gives up
stop_after_attempt_OneMore(attempt_number) == attempt_number >= MaxAttempts + 1

\* stop_after_attempt(3): no retry once the third attempt has been made
stop_after_attempt(attempt_number) == attempt_number >= MaxAttempts

\* the backend call raises: tenacity waits and calls again, or gives up and
\* raises RetryError to the caller
LLMAttemptFails ==
  /\ l_pc = "attempt"
  /\ \E error \in BackendErrors :
       l_log' = Append(l_log, [outcome |-> "raised", error |-> error])
  /\ l_attempts' = l_attempts + 1
  /\ IF stop_after_attempt(l_attempts + 1)
     THEN l_pc' = "raised" /\ l_result' = "RetryError"
     ELSE l_pc' = "attempt" /\ l_result' = l_result
  /\ UNCHANGED l_kind
  /\ UnchangedExcept({"llm"})

\* the backend call answers: complete returns the text; complete_json hands
\* it to json.loads, which returns the object or raises
LLMAttemptAnswers ==
  /\ l_pc = "attempt"
  /\ l_attempts' = l_attempts + 1
  /\ \E reply \in Replies :
       /\ l_log' = Append(l_log, [outcome |-> "answered", error |-> ""])
       /\ IF l_kind = "complete_json" /\ ~reply.parses
          THEN l_pc' = "raised" /\ l_result' = "JSONDecodeError"
          ELSE l_pc' = "returned" /\ l_result' = reply.text
  /\ UNCHANGED l_kind
  /\ UnchangedExcept({"llm"})

InitLLM ==
  /\ l_pc = "attempt"
  /\ l_kind \in {"complete", "complete_json"}
  /\ l_attempts = 0
  /\ l_log = <<>>
  /\ l_result = ""
  /\ AllOffExcept({"llm"})

NextLLM ==
  \/ LLMAttemptFails
  \/ LLMAttemptAnswers

\* every call of the backend ends: it answers or it raises
SpecLLM == InitLLM /\ [][NextLLM]_vars /\ WF_vars(NextLLM)

\* C11: one request calls the backend at most three times; when every call
\* fails, or when complete_json receives text that is no JSON, the request
\* ends with an exception to the caller; and every request ends.
C11_BoundedRetry ==
  /\ [](/\ l_attempts <= MaxAttempts
        /\ Len(l_log) = l_attempts
        /\ (l_pc = "attempt") => l_attempts < MaxAttempts
        /\ (/\ l_attempts = MaxAttempts
            /\ \A k \in DOMAIN l_log : l_log[k].outcome = "raised")
             => l_pc = "raised"
        /\ (l_pc = "returned" /\ l_kind = "complete_json")
             => \E reply \in Replies : reply.parses /\ reply.text = l_result
        /\ \A k \in DOMAIN l_log :
             l_log[k].outcome = "answered" => k = Len(l_log))
  /\ <>(l_pc \in {"returned", "raised"})

\* a request that failed three times and raised to its caller
C11_Witness ==
  /\ l_pc = "raised"
  /\ l_attempts = MaxAttempts
  /\ \A k \in DOMAIN l_log : l_log[k].outcome = "raised"

----------------------------------------------------------------------------
(* _extract_date_from_text as a function of the reply of llm.complete *)

\* The text of a reply, without the blanks and line ends around it
ReplyCores ==
  { "2026-01-07", "none", "None", "NONE", "", "January 7, 2026",
    "2026-02-30", "2026-13-01", "2026-01-32", "2025-02-29", "2024-02-29",
    "2026-XX-XX", "2026/01/07", "2026-01-07T19:00" }

MaxPadding == 1

\* blanks and line ends a reply may start or end with
Paddings == UNION {[1..k -> {" ", "\n"}] : k \in 0..MaxPadding}

RECURSIVE Concat(_)
Concat(chars) ==
  IF chars = <<>> THEN "" ELSE Head(chars) \o Concat(Tail(chars))

SampleReplies ==
  {Concat(before) \o core \o Concat(after) :
     before \in Paddings, core \in ReplyCores, after \in Paddings}

InitDate ==
  /\ d_pc = "call"
  /\ d_response \in SampleReplies
  /\ d_result = None
  /\ AllOffExcept({"date"})

\* llm.complete answers and the reply is examined
ExtractDateAnswered ==
  /\ d_pc = "call"
  /\ d_result' = ExtractDate(d_response)
  /\ d_pc' = "returned"
  /\ UNCHANGED d_response
  /\ UnchangedExcept({"date"})

\* llm.complete raises: except Exception: return None
ExtractDateRaised ==
  /\ d_pc = "call"
  /\ d_result' = None
  /\ d_pc' = "raised"
  /\ UNCHANGED d_response
  /\ UnchangedExcept({"date"})

NextDate ==
  \/ ExtractDateAnswered
  \/ ExtractDateRaised

SpecDate == InitDate /\ [][NextDate]_vars

----------------------------------------------------------------------------
(* Claims about _extract_date_from_text *)

DigitValue ==
  [c \in {"0", "1", "2", "3", "4", "5", "6", "7", "8", "9"} |->
     CASE c = "0" -> 0 [] c = "1" -> 1 [] c = "2" -> 2 [] c = "3" -> 3
       [] c = "4" -> 4 [] c = "5" -> 5 [] c = "6" -> 6 [] c = "7" -> 7
       [] c = "8" -> 8 [] c = "9" -> 9]

IsDigits(s) == \A k \in 1..Len(s) : SubSeq(s, k, k) \in DOMAIN DigitValue

RECURSIVE Number(_)
Number(s) ==
  IF s = "" THEN 0
  ELSE 10 * Number(SubSeq(s, 1, Len(s) - 1))
       + DigitValue[SubSeq(s, Len(s), Len(s))]

IsLeapYear(y) == (y % 4 = 0 /\ y % 100 # 0) \/ y % 400 = 0

DaysIn(y, m) ==
  IF m = 2 THEN (IF IsLeapYear(y) THEN 29 ELSE 28)
  ELSE IF m \in {4, 6, 9, 11} THEN 30
  ELSE 31

\* length 10 with hyphens at positions 4 and 7, counted from 0
HasDateShape(s) ==
  Len(s) = 10 /\ SubSeq(s, 5, 5) = "-" /\ SubSeq(s, 8, 8) = "-"

\* a real calendar date written YYYY-MM-DD
IsCalendarDate(s) ==
  /\ HasDateShape(s)
  /\ IsDigits(SubSeq(s, 1, 4)) /\ IsDigits(SubSeq(s, 6, 7))
  /\ IsDigits(SubSeq(s, 9, 10))
  /\ LET y == Number(SubSeq(s, 1, 4))
         m == Number(SubSeq(s, 6, 7))
         d == Number(SubSeq(s, 9, 10))
     IN  y >= 1 /\ m \in 1..12 /\ d >= 1 /\ d <= DaysIn(y, m)

\* C12: the date _extract_date_from_text returns is None or a real calendar
\* date in YYYY-MM-DD form, whatever the oracle answered.
C12_DateIsCalendarValid ==
  d_pc = "returned" => (d_result = None \/ IsCalendarDate(d_result[1]))

UrlDatePositions(url) ==
  {k \in 1..(Len(url) - 9) : IsCalendarDate(SubSeq(url, k, k + 9))}

FirstUrlDate(url) ==
  LET k == CHOOSE p \in UrlDatePositions(url) :
             \A r \in UrlDatePositions(url) : p <= r
  IN  SubSeq(url, k, k + 9)

\* C13: an event found by search whose URL holds a date in YYYY-MM-DD form
\* carries that date, and the oracle is not asked for its date.
C13_UrlDateWithoutOracle ==
  \A k \in DOMAIN s_events :
    LET url == s_events[k].url
    IN  UrlDatePositions(url) # {} =>
          /\ s_events[k].date = Some(FirstUrlDate(url))
          /\ \A c \in DOMAIN date_log : date_log[c].url # url

----------------------------------------------------------------------------
(* DatabaseClient *)

\* mutant: the hash is taken of the URL as it is
_generate_hash_Exact(url) == url

\* hashlib.md5(url.lower().strip()): the digest stands for the text digested
_generate_hash(url) == strip(lower(url))

\* select id from news_articles where url_hash = ...: any row?
article_exists(url) ==
  \E k \in DOMAIN news_articles :
    news_articles[k].url_hash = Some(_generate_hash(url))

\* select id from events where url_hash = ...: any row?
event_exists(url) ==
  \E k \in DOMAIN events_rows :
    events_rows[k].url_hash = Some(_generate_hash(url))

\* mutant: only a date of None counts as missing
DateMissing_NoneOnly(event) == event.date = None

\* event_date = event.get("date") or event.get("start_date"); not event_date
DateMissing(event) == event.date = None \/ event.date = Some("")

\* the row insert_article writes
ArticleRow(article) ==
  [source_url |-> article.source_url,
   interest_score |-> min(100, article.relevance_score),
   url_hash |-> Some(_generate_hash(article.source_url))]

\* the row insert_event writes: the data hold no url_hash
EventRow(event) ==
  [title |-> event.name, url |-> event.url, date |-> event.date[1],
   url_hash |-> None]

\* Articles research_and_save may hand over: research returns each URL once
ArticlePool ==
  { [source_url |-> "https://example.org/voices", relevance_score |-> 80],
    [source_url |-> "https://Example.org/Voices ", relevance_score |-> 95],
    [source_url |-> "https://www.pinknews.co.uk/2026/01/07/leeds",
     relevance_score |-> 150] }

\* Events discover_and_save may hand over
EventPool ==
  { [name |-> "BBZ", url |-> "https://outsavvy.com/event/bbz",
     date |-> Some("2026-03-01")],
    [name |-> "Pride stream", url |-> "https://www.twitch.tv/event/pride",
     date |-> None],
    [name |-> "BBZ London", url |-> "https://outsavvy.com/event/bbz/",
     date |-> Some("")] }

MaxBatch == 2

MaxCalls == 2

\* the lists of at most n different items of a pool
Batches(pool, n) ==
  {b \in UNION {[1..k -> pool] : k \in 0..n} :
     \A i, j \in DOMAIN b : i # j => b[i] # b[j]}

\* a batch method is called; with nothing to insert it returns at once
BatchCall ==
  /\ db_pc = "idle"
  /\ Len(db_returns) < MaxCalls
  /\ \E kind \in {"articles", "events"} :
       \E items \in Batches(IF kind = "articles" THEN ArticlePool
                            ELSE EventPool, MaxBatch) :
         /\ b_kind' = kind
         /\ b_items' = items
         /\ IF items = <<>>
            THEN /\ db_pc' = "idle"
                 /\ db_returns' = Append(db_returns,
                      [kind |-> kind, items |-> items, outcome |-> "returned",
                       inserted |-> 0, skipped |-> 0])
            ELSE db_pc' = "batch" /\ UNCHANGED db_returns
  /\ b_i' = 1
  /\ b_inserted' = 0
  /\ b_skipped' = 0
  /\ UNCHANGED <<news_articles, events_rows>>
  /\ UnchangedExcept({"db"})

\* One iteration of the batch loop ends with the counters given; after the
\* last item the method returns {"inserted", "skipped"}
BatchStep(inserted, skipped) ==
  /\ b_inserted' = inserted
  /\ b_skipped' = skipped
  /\ b_i' = b_i + 1
  /\ IF b_i = Len(b_items)
     THEN /\ db_pc' = "idle"
          /\ db_returns' = Append(db_returns,
               [kind |-> b_kind, items |-> b_items, outcome |-> "returned",
                inserted |-> inserted, skipped |-> skipped])
     ELSE db_pc' = "batch" /\ UNCHANGED db_returns
  /\ UNCHANGED <<b_kind, b_items>>
  /\ UnchangedExcept({"db"})

\* insert_article returns: None for a stored hash, else the id of the new row
InsertArticle ==
  /\ db_pc = "batch"
  /\ b_kind = "articles"
  /\ LET article == b_items[b_i]
     IN  IF article_exists(article.source_url)
         THEN /\ UNCHANGED news_articles
              /\ BatchStep(b_inserted, b_skipped + 1)
         ELSE /\ news_articles' = Append(news_articles, ArticleRow(article))
              /\ BatchStep(b_inserted + 1, b_skipped)
  /\ UNCHANGED events_rows

\* insert_event returns: None without a date or for a stored hash, else the
\* id of the new row
InsertEvent ==
  /\ db_pc = "batch"
  /\ b_kind = "events"
  /\ LET event == b_items[b_i]
     IN  IF DateMissing(event) \/ event_exists(event.url)
         THEN /\ UNCHANGED events_rows
              /\ BatchStep(b_inserted, b_skipped + 1)
         ELSE /\ events_rows' = Append(events_rows, EventRow(event))
              /\ BatchStep(b_inserted + 1, b_skipped)
  /\ UNCHANGED news_articles

\* a query of insert_article or insert_event raises (the API is down, the
\* table refuses the row): the batch method has no handler and raises
InsertRaises ==
  /\ db_pc = "batch"
  /\ IF b_kind = "events" THEN ~DateMissing(b_items[b_i]) ELSE TRUE
  /\ db_pc' = "idle"
  /\ db_returns' = Append(db_returns,
       [kind |-> b_kind, items |-> b_items, outcome |-> "raised",
        inserted |-> b_inserted, skipped |-> b_skipped])
  /\ UNCHANGED <<news_articles, events_rows, b_kind, b_items, b_i,
                 b_inserted, b_skipped>>
  /\ UnchangedExcept({"db"})

InitDB ==
  /\ db_pc = "idle"
  /\ news_articles = <<>>
  /\ events_rows = <<>>
  /\ b_kind = ""
  /\ b_items = <<>>
  /\ b_i = 0
  /\ b_inserted = 0
  /\ b_skipped = 0
  /\ db_returns = <<>>
  /\ AllOffExcept({"db"})

NextDB ==
  \/ BatchCall
  \/ InsertArticle
  \/ InsertEvent
  \/ InsertRaises

SpecDB == InitDB /\ [][NextDB]_vars

(***************************************************************************)
(* Claims about the stored records                                         *)
(***************************************************************************)

\* the batch records of one kind that returned their counts
Returned(kind) ==
  {k \in DOMAIN db_returns :
     db_returns[k].kind = kind /\ db_returns[k].outcome = "returned"}

\* an event carries no usable date: none at all, or an empty text
Dateless(event) == event.date = None \/ event.date = Some("")

\* how many of the first n items of a batch carry no date
RECURSIVE DatelessAmong(_, _)
DatelessAmong(items, n) ==
  IF n = 0 THEN 0
  ELSE DatelessAmong(items, n - 1) + (IF Dateless(items[n]) THEN 1 ELSE 0)

\* C15: an event without a date is never stored: every stored event row has
\* a date that is a non-empty text, no stored row is the row of a dateless
\* event handed over, and an events batch counts each dateless item it has
\* passed as skipped (and every item as inserted or skipped)
C15_DatelessEventsNeverStored ==
  /\ \A k \in DOMAIN events_rows :
       /\ events_rows[k].date # ""
       /\ \A event \in EventPool :
            Dateless(event) =>
              ~(events_rows[k].title = event.name
                /\ events_rows[k].url = event.url)
  /\ (db_pc = "batch" /\ b_kind = "events") =>
       /\ b_skipped >= DatelessAmong(b_items, b_i - 1)
       /\ b_inserted + b_skipped = b_i - 1
  /\ \A k \in Returned("events") :
       /\ db_returns[k].skipped
            >= DatelessAmong(db_returns[k].items, Len(db_returns[k].items))
       /\ db_returns[k].inserted + db_returns[k].skipped
            = Len(db_returns[k].items)

\* with a dated event stored, a batch holding both kinds of dateless event
\* returned and counted them skipped
C15_Witness ==
  \E k \in Returned("events") :
    /\ \E i \in DOMAIN db_returns[k].items :
         db_returns[k].items[i].date = None
    /\ \E i \in DOMAIN db_returns[k].items :
         db_returns[k].items[i].date = Some("")
    /\ db_returns[k].skipped = 2
    /\ Len(events_rows) >= 1

\* C19: a record whose insert raises is caught for that record and counted
\* as skipped, the later records are still attempted, and the batch call
\* returns its counts: every batch call that ended returned, having passed
\* every one of its items as inserted or skipped
C19_BatchReturnsCounts ==
  \A k \in DOMAIN db_returns :
    /\ db_returns[k].outcome = "returned"
    /\ db_returns[k].inserted + db_returns[k].skipped
         = Len(db_returns[k].items)

\* the content hash of a stored or offered article: its source URL in lower
\* case, trimmed
ContentHashOf ==
  [url \in {article.source_url : article \in ArticlePool} |->
     strip(lower(url))]

ContentHash(url) == ContentHashOf[url]

\* the hashes of the articles that the returned batches before batch k held
OfferedBefore(k) ==
  UNION {{ContentHash(db_returns[j].items[i].source_url) :
            i \in DOMAIN db_returns[j].items} :
         j \in {j \in Returned("articles") : j < k}}

\* insert_article is at an article whose content hash is stored
AtStoredArticle ==
  /\ db_pc = "batch"
  /\ b_kind = "articles"
  /\ \E k \in DOMAIN news_articles :
       ContentHash(news_articles[k].source_url)
         = ContentHash(b_items[b_i].source_url)

\* C20: no two stored news records have the same content hash; a batch of
\* articles that were all offered by earlier returned batches inserts none
\* and counts all of them as skipped; and an insert of an article whose hash
\* is stored leaves the store unchanged and, when it returns, is counted as
\* skipped
C20_NewsInsertIdempotent ==
  /\ [](/\ \A j, k \in DOMAIN news_articles :
             ContentHash(news_articles[j].source_url)
               = ContentHash(news_articles[k].source_url) => j = k
        /\ \A k \in Returned("articles") :
             (\A i \in DOMAIN db_returns[k].items :
                ContentHash(db_returns[k].items[i].source_url)
                  \in OfferedBefore(k))
             => /\ db_returns[k].inserted = 0
                /\ db_returns[k].skipped = Len(db_returns[k].items))
  /\ [][AtStoredArticle =>
          /\ news_articles' = news_articles
          /\ b_i' = b_i + 1 =>
               (b_skipped' = b_skipped + 1 /\ b_inserted' = b_inserted)]_vars

\* a batch holding two spellings of one URL stored one record, and a second
\* run over the same batch inserted nothing and skipped both
C20_Witness ==
  \E j, k \in Returned("articles") :
    /\ j < k
    /\ db_returns[j].items = db_returns[k].items
    /\ Len(db_returns[j].items) = 2
    /\ ContentHash(db_returns[j].items[1].source_url)
         = ContentHash(db_returns[j].items[2].source_url)
    /\ db_returns[j].inserted = 1
    /\ db_returns[j].skipped = 1
    /\ db_returns[k].inserted = 0
    /\ db_returns[k].skipped = 2
    /\ Len(news_articles) = 1

----------------------------------------------------------------------------
(* PlanningAgent.run_daily_discovery *)

\* mutant: the failure of a stage is printed only
StageFailed_PrintOnly(errors, message) == errors

\* results["errors"].append(f"... failed: {str(e)}")
StageFailed(errors, message) == Append(errors, message)

\* str(e) of what a stage may raise
StageErrors == {"connection refused"}

\* what research_and_save may return
NewsStats == { [discovered |-> 2, inserted |-> 1, skipped |-> 1] }

\* the history of stages: the running stage ends, the next one is called
StageEnds(outcome, next) ==
  LET ended == [p_stages EXCEPT ![Len(p_stages)].outcome = outcome]
  IN  IF next = "done" THEN ended
      ELSE Append(ended, [stage |-> next, outcome |-> "running"])

\* discover_and_save calls discover_all: both branches are started
DiscoverAllCalled ==
  /\ e_pc' = "gather"
  /\ s_pc' = "start"
  /\ s_results' = <<>>
  /\ s_i' = 0
  /\ s_events' = <<>>
  /\ s_rejected' = <<>>
  /\ date_log' = <<>>
  /\ c_pc' = "start"
  /\ c_events' = <<>>
  /\ all_events' = <<>>
  /\ unique_events' = <<>>

\* discover_and_save has ended: the lists of discover_all are gone
DiscoverAndSaveEnded ==
  /\ e_pc' = "off"
  /\ s_pc' = "off"
  /\ s_results' = <<>>
  /\ s_i' = 0
  /\ s_events' = <<>>
  /\ s_rejected' = <<>>
  /\ date_log' = <<>>
  /\ c_pc' = "off"
  /\ c_events' = <<>>
  /\ all_events' = <<>>
  /\ unique_events' = <<>>

\* insert_events_batch over the first n events: the table and the counters
RECURSIVE insert_events_batch(_, _, _)
insert_events_batch(rows, events, n) ==
  IF n = 0 THEN [rows |-> rows, inserted |-> 0, skipped |-> 0]
  ELSE LET done  == insert_events_batch(rows, events, n - 1)
           event == events[n]
       IN  IF \/ DateMissing(event)
              \/ \E k \in DOMAIN done.rows :
                   done.rows[k].url_hash = Some(_generate_hash(event.url))
           THEN [done EXCEPT !.skipped = @ + 1]
           ELSE [rows |-> Append(done.rows, EventRow(event)),
                 inserted |-> done.inserted + 1,
                 skipped |-> done.skipped]

\* research_and_save returns its counts
NewsStageReturns ==
  /\ p_pc = "news"
  /\ \E stats \in NewsStats :
       p_results' = [p_results EXCEPT !.news = Some(stats)]
  /\ p_stages' = StageEnds("returned", "events")
  /\ p_pc' = "events"
  /\ DiscoverAllCalled
  /\ UNCHANGED <<p_branches>>
  /\ UnchangedExcept({"plan", "events"})

\* research_and_save raises (research, the batch insert or the run log)
NewsStageRaises ==
  /\ p_pc = "news"
  /\ \E e \in StageErrors :
       p_results' = [p_results EXCEPT
         !.errors = StageFailed(@, "News research failed: " \o e)]
  /\ p_stages' = StageEnds("raised", "events")
  /\ p_pc' = "events"
  /\ DiscoverAllCalled
  /\ UNCHANGED <<p_branches>>
  /\ UnchangedExcept({"plan", "events"})

\* discover_all has returned; the batch insert and the run log succeed and
\* discover_and_save returns its counts
EventsStageReturns ==
  /\ p_pc = "events"
  /\ e_pc = "done"
  /\ LET saved == insert_events_batch(events_rows, unique_events,
                                      Len(unique_events))
     IN  /\ events_rows' = saved.rows
         /\ p_results' = [p_results EXCEPT !.events =
              Some([discovered |-> Len(unique_events),
                    inserted |-> saved.inserted,
                    skipped |-> saved.skipped])]
  /\ p_branches' = Some([search |-> s_pc, scrape |-> c_pc])
  /\ p_stages' = StageEnds("returned", "sync")
  /\ p_pc' = "sync"
  /\ DiscoverAndSaveEnded
  /\ UNCHANGED <<db_pc, news_articles, b_kind, b_items, b_i, b_inserted,
                 b_skipped, db_returns>>
  /\ UnchangedExcept({"plan", "events", "db"})

\* discover_all has returned; a query for event n + 1 raises out of the
\* batch, or the run log raises after the batch (n is all of them)
EventsStageRaises ==
  /\ p_pc = "events"
  /\ e_pc = "done"
  /\ \E n \in 0..Len(unique_events) :
       /\ n < Len(unique_events) => ~DateMissing(unique_events[n + 1])
       /\ events_rows' = insert_events_batch(events_rows, unique_events, n).rows
  /\ \E e \in StageErrors :
       p_results' = [p_results EXCEPT
         !.errors = StageFailed(@, "Events discovery failed: " \o e)]
  /\ p_branches' = Some([search |-> s_pc, scrape |-> c_pc])
  /\ p_stages' = StageEnds("raised", "sync")
  /\ p_pc' = "sync"
  /\ DiscoverAndSaveEnded
  /\ UNCHANGED <<db_pc, news_articles, b_kind, b_items, b_i, b_inserted,
                 b_skipped, db_returns>>
  /\ UnchangedExcept({"plan", "events", "db"})

\* sync_daily_discoveries returns: it catches what its parts raise
SyncReturns ==
  /\ p_pc = "sync"
  /\ \E news_synced, events_synced \in BOOLEAN :
       p_results' = [p_results EXCEPT !.ivor_sync =
         Some([news_synced |-> news_synced, events_synced |-> events_synced,
               errors |-> <<>>])]
  /\ p_stages' = StageEnds("returned", "done")
  /\ p_pc' = "done"
  /\ UNCHANGED <<p_branches>>
  /\ UnchangedExcept({"plan"})

InitPlan ==
  /\ p_pc = "news"
  /\ p_results = [news |-> None, events |-> None, ivor_sync |-> None,
                  errors |-> <<>>]
  /\ p_stages = <<[stage |-> "news", outcome |-> "running"]>>
  /\ p_branches = None
  /\ AllOffExcept({"plan"})

NextPlan ==
  \/ NewsStageReturns
  \/ NewsStageRaises
  \/ SearchReturns
  \/ SearchFilterRejects
  \/ SearchDateReturns
  \/ SearchDateRaises
  \/ SearchRaises
  \/ ScrapeReturns
  \/ ScrapeRaises
  \/ MergeAndDedupe
  \/ EventsStageReturns
  \/ EventsStageRaises
  \/ SyncReturns

SpecPlan == InitPlan /\ [][NextPlan]_vars

(***************************************************************************)
(* Claims about the coordinator                                            *)
(***************************************************************************)

StageOrder == <<"news", "events", "sync">>

\* the entry of the errors list a stage that threw leaves
StagePrefix(stage) ==
  CASE stage = "news"   -> "News research failed: "
    [] stage = "events" -> "Events discovery failed: "
    [] stage = "sync"   -> "IVOR sync failed: "

StartsWith(text, prefix) ==
  Len(text) >= Len(prefix) /\ SubSeq(text, 1, Len(prefix)) = prefix

\* the stages of the run that threw, in the order they were called
RECURSIVE ThrownUpTo(_)
ThrownUpTo(n) ==
  IF n = 0 THEN <<>>
  ELSE IF p_stages[n].outcome = "raised"
       THEN Append(ThrownUpTo(n - 1), p_stages[n].stage)
       ELSE ThrownUpTo(n - 1)

Thrown == ThrownUpTo(Len(p_stages))

\* C17: run_daily_discovery never raises and runs its stages in the order
\* news, events, sync whichever of them threw: the stages called so far are
\* the first stages of that order, a stage that has ended, thrown or not, is
\* followed by the next stage or by the return of the results, the run that
\* returned has called all three, and the errors list holds exactly one
\* entry for each stage that threw, in the order of the stages, and no other
\* entry
C17_StageIsolation ==
  /\ p_pc \in {"news", "events", "sync", "done"}
  /\ Len(p_stages) <= Len(StageOrder)
  /\ \A k \in DOMAIN p_stages :
       /\ p_stages[k].stage = StageOrder[k]
       /\ p_stages[k].outcome = "running" <=>
            (k = Len(p_stages) /\ p_pc # "done")
  /\ p_pc # "done" => p_stages[Len(p_stages)].stage = p_pc
  /\ p_pc = "done" => Len(p_stages) = Len(StageOrder)
  /\ Len(p_results.errors) = Len(Thrown)
  /\ \A k \in DOMAIN p_results.errors :
       StartsWith(p_results.errors[k], StagePrefix(Thrown[k]))

\* a run returned after its news stage and its events stage had both thrown:
\* the sync stage was still run and the errors list holds the two entries
C17_Witness ==
  /\ p_pc = "done"
  /\ Thrown = <<"news", "events">>
  /\ p_stages[3].outcome = "returned"
  /\ p_results.ivor_sync # None
  /\ Len(p_results.errors) = 2

\* C18: no silent empty result: a run whose events stage reported zero
\* discovered events after a branch of discover_all had raised, in
\* particular after both had raised, returns a non-empty errors list
C18_NoSilentEmptyResult ==
  (/\ p_pc = "done"
   /\ p_branches # None
   /\ p_results.events # None
   /\ "raised" \in {p_branches[1].search, p_branches[1].scrape}
   /\ p_results.events[1].discovered = 0)
  => p_results.errors # <<>>

----------------------------------------------------------------------------
(* Two concurrent runs against one store *)

\* the scheduler process (main.py run_daemon) and a run started beside it
\* (main.py --run-now): each holds its own DatabaseClient
Runs == {"daemon", "run_now"}

\* the loop of insert_articles_batch of a run moves to its next article
RaceAdvance(run) ==
  /\ r_i' = [r_i EXCEPT ![run] = @ + 1]
  /\ r_pc' = [r_pc EXCEPT ![run] =
       IF r_i[run] = Len(r_items[run]) THEN "done" ELSE "check"]

\* article_exists: the select request of a run is answered; a stored hash
\* makes insert_article return None
RaceExistsQuery(run) ==
  /\ r_pc[run] = "check"
  /\ IF article_exists(r_items[run][r_i[run]].source_url)
     THEN RaceAdvance(run)
     ELSE /\ r_pc' = [r_pc EXCEPT ![run] = "insert"]
          /\ UNCHANGED r_i
  /\ UNCHANGED <<r_items, dbVars>>
  /\ UnchangedExcept({"race", "db"})

\* the insert request of a run is answered: the row is stored
RaceInsertQuery(run) ==
  /\ r_pc[run] = "insert"
  /\ news_articles' =
       Append(news_articles, ArticleRow(r_items[run][r_i[run]]))
  /\ RaceAdvance(run)
  /\ UNCHANGED <<r_items, db_pc, events_rows, b_kind, b_items, b_i,
                 b_inserted, b_skipped, db_returns>>
  /\ UnchangedExcept({"race", "db"})

InitRace ==
  /\ r_items \in [Runs -> Batches(ArticlePool, MaxBatch)]
  /\ r_i = [run \in Runs |-> 1]
  /\ r_pc = [run \in Runs |->
       IF r_items[run] = <<>> THEN "done" ELSE "check"]
  /\ AllOffExcept({"race"})

NextRace ==
  \/ \E run \in Runs : RaceExistsQuery(run)
  \/ \E run \in Runs : RaceInsertQuery(run)

SpecRace == InitRace /\ [][NextRace]_vars

\* C21: under every interleaving of the exists-check and insert steps of two
\* concurrent runs, at most one record of a content hash is stored
C21_ConcurrentRunsStoreOnce ==
  \A j, k \in DOMAIN news_articles :
    ContentHashOf[news_articles[j].source_url]
      = ContentHashOf[news_articles[k].source_url] => j = k

----------------------------------------------------------------------------
(* Claims about the stored events *)

EventHashOf ==
  [url \in {event.url : event \in EventPool} |-> strip(lower(url))]

\* C22: no two stored event records share the content hash of their URL
\* (lowercased, trimmed), so handing the same dated events over again
\* inserts no further record: a returned events batch that holds the items
\* of an earlier returned batch inserts none
C22_EventsStoredOnce ==
  /\ \A j, k \in DOMAIN events_rows :
       EventHashOf[events_rows[j].url] = EventHashOf[events_rows[k].url]
         => j = k
  /\ \A j, k \in Returned("events") :
       (j < k /\ db_returns[j].items = db_returns[k].items)
         => db_returns[k].inserted = 0

----------------------------------------------------------------------------
(* SearchAgent.multi_search *)

\* a SearchResult with the source search() derives from the URL
SearchResultFrom(title, url, snippet, source) ==
  [title |-> title, url |-> url, snippet |-> snippet, source |-> source]

\* Results DuckDuckGo may return: one URL under two titles, and the same
\* URL in another letter case
MultiPool ==
  { SearchResultFrom("Original Event", "https://example.com/event",
                 "First version", "Source1"),
    SearchResultFrom("Updated Event", "https://example.com/event",
                 "Second version", "Source2"),
    SearchResultFrom("Event B", "https://example.com/Event",
                 "Other spelling", "Source1") }

QueryList ==
  <<"QTIPOC events UK", "Black LGBTQ party London",
    "Black queer events Manchester", "site:outsavvy.com Black LGBTQ">>

MaxQueries == 3

MaxPerQuery == 2

\* mutant: a new result is put in front of the list
RECURSIVE ExtendUnique_Prepend(_, _, _)
ExtendUnique_Prepend(all, seen, results) ==
  IF results = <<>> THEN [all |-> all, seen |-> seen]
  ELSE LET result == Head(results)
       IN  IF result.url \notin seen
           THEN ExtendUnique_Prepend(<<result>> \o all,
                                     seen \cup {result.url}, Tail(results))
           ELSE ExtendUnique_Prepend(all, seen, Tail(results))

\* mutant: every result is appended, seen or not
RECURSIVE ExtendUnique_NoSeen(_, _, _)
ExtendUnique_NoSeen(all, seen, results) ==
  IF results = <<>> THEN [all |-> all, seen |-> seen]
  ELSE ExtendUnique_NoSeen(Append(all, Head(results)),
                           seen \cup {Head(results).url}, Tail(results))

\* for result in results: if result.url not in seen_urls: add and append
RECURSIVE ExtendUnique(_, _, _)
ExtendUnique(all, seen, results) ==
  IF results = <<>> THEN [all |-> all, seen |-> seen]
  ELSE LET result == Head(results)
       IN  IF result.url \notin seen
           THEN ExtendUnique(Append(all, result), seen \cup {result.url},
                             Tail(results))
           ELSE ExtendUnique(all, seen, Tail(results))

\* the loop over the queries moves on; after the last query all_results is
\* returned
QueryDone ==
  /\ m_q' = m_q + 1
  /\ m_pc' = IF m_q = Len(m_queries) THEN "returned" ELSE "loop"
  /\ UNCHANGED m_queries
  /\ UnchangedExcept({"msearch"})

\* search_fn returns the results of the query; the new URLs are appended
QueryAnswered ==
  /\ m_pc = "loop"
  /\ \E results \in Batches(MultiPool, MaxPerQuery) :
       LET extended == ExtendUnique(m_all, m_seen, results)
       IN  /\ m_all' = extended.all
           /\ m_seen' = extended.seen
           /\ m_log' = Append(m_log,
                [query |-> m_queries[m_q], outcome |-> "answered",
                 results |-> results])
  /\ QueryDone

\* the search of the query fails: search_fn prints the error and returns []
QueryFailed ==
  /\ m_pc = "loop"
  /\ m_log' = Append(m_log,
       [query |-> m_queries[m_q], outcome |-> "failed", results |-> <<>>])
  /\ UNCHANGED <<m_all, m_seen>>
  /\ QueryDone

InitSearch ==
  /\ \E n \in 0..MaxQueries :
       /\ m_queries = SubSeq(QueryList, 1, n)
       /\ m_pc = IF n = 0 THEN "returned" ELSE "loop"
  /\ m_q = 1
  /\ m_all = <<>>
  /\ m_seen = {}
  /\ m_log = <<>>
  /\ AllOffExcept({"msearch"})

NextSearch ==
  \/ QueryAnswered
  \/ QueryFailed

SpecSearch == InitSearch /\ [][NextSearch]_vars

\* the results the queries returned, one list after the other in the order
\* of the queries
RECURSIVE Concatenated(_)
Concatenated(n) ==
  IF n = 0 THEN <<>> ELSE Concatenated(n - 1) \o m_log[n].results

\* C23: multi_search returns the per-query results concatenated in the order
\* of the queries, without the items whose exact URL an earlier item has (the
\* kept item is the earlier one, with its title, snippet and source); a query
\* whose search failed contributes nothing, and every query of the list is
\* run, in order, whatever failed before it
C23_MultiSearchFirstOccurrence ==
  /\ Len(m_log) <= Len(m_queries)
  /\ \A k \in DOMAIN m_log :
       /\ m_log[k].query = m_queries[k]
       /\ m_log[k].outcome = "failed" => m_log[k].results = <<>>
  /\ m_all = FirstOccurrences(Concatenated(Len(m_log)))
  /\ m_pc = "returned" => Len(m_log) = Len(m_queries)

\* the first query failed, the second returned the URL under one title and
\* the third the same URL under another title: the item of the second query
\* is returned, the item of the third is not
C23_Witness ==
  /\ m_pc = "returned"
  /\ Len(m_log) = 3
  /\ m_log[1].outcome = "failed"
  /\ \E i \in DOMAIN m_log[2].results : \E j \in DOMAIN m_log[3].results :
       /\ m_log[2].results[i].url = m_log[3].results[j].url
       /\ m_log[2].results[i].title # m_log[3].results[j].title
       /\ \E k \in DOMAIN m_all : m_all[k] = m_log[2].results[i]
       /\ \A k \in DOMAIN m_all : m_all[k] # m_log[3].results[j]

\* the two deduplications, each applied to a whole list
MultiSearchDedupe(list) == ExtendUnique(<<>>, {}, list).all

EventsDedupe(list) == DedupeLoop(list, {})

\* C25: deduplicating a list a second time changes nothing, for the
\* deduplication of multi_search and for that of the events merge, on every
\* list of results the queries can return
C25_DedupIdempotent ==
  LET list == Concatenated(Len(m_log))
  IN  /\ MultiSearchDedupe(MultiSearchDedupe(list)) = MultiSearchDedupe(list)
      /\ EventsDedupe(EventsDedupe(list)) = EventsDedupe(list)
      /\ m_all = MultiSearchDedupe(m_all)

\* the queries returned one URL more than once and one URL in two spellings:
\* the deduplicated list is shorter than the list and holds several items
C25_Witness ==
  LET list == Concatenated(Len(m_log))
  IN  /\ m_pc = "returned"
      /\ Len(MultiSearchDedupe(list)) < Len(list)
      /\ Len(MultiSearchDedupe(list)) >= 2
      /\ Len(EventsDedupe(list)) >= 2

----------------------------------------------------------------------------
(* Claims about the list discover_all returns *)

\* C24: the candidates discover_all returns are ranked: they stand in
\* non-increasing order of relevance_score
C24_EventsRanked ==
  e_pc = "done" =>
    \A j, k \in DOMAIN unique_events :
      j < k => unique_events[j].relevance_score
                 >= unique_events[k].relevance_score

\* C28: every event discover_all returns, search-derived or scrape-derived,
\* has a relevance_score at or above event_relevance_threshold
C28_EventsAtOrAboveThreshold ==
  e_pc = "done" =>
    \A k \in DOMAIN unique_events :
      unique_events[k].relevance_score >= event_relevance_threshold

----------------------------------------------------------------------------
(* Claims about the scores the test suite asserts *)

\* C26: a text without negative term and without high-relevance phrase
\* scores 75 when it holds a Black-diaspora term and an LGBTQ+ term but no UK
\* term, 40 when it holds a term of only one of the two groups, and 20 when
\* it matches no keyword set
C26_TestSuiteScores ==
  (KeywordScored /\ ~hasNegative /\ ~hasHighRelevance) =>
    /\ (hasPrimary /\ hasSecondary /\ ~hasLocale) => q_score = 75
    /\ (hasPrimary # hasSecondary) => q_score = 40
    /\ (~hasPrimary /\ ~hasSecondary /\ ~hasLocale) => q_score = 20

\* C27: the merged list is the search-derived candidates followed by the
\* scrape-derived candidates, whichever branch ended first: a step of one
\* branch leaves the list of the other branch and the merged list alone,
\* the merge is made of the two lists in that order, and of a URL that both
\* branches produced the returned item is the search-derived one
C27_MergeOrderFixed ==
  /\ [](e_pc = "done" =>
          /\ all_events =
               (IF s_pc = "returned" THEN s_events ELSE <<>>)
                 \o (IF c_pc = "returned" THEN c_events ELSE <<>>)
          /\ (s_pc = "returned" /\ c_pc = "returned") =>
               \A i \in DOMAIN s_events : \A j \in DOMAIN c_events :
                 s_events[i].url = c_events[j].url =>
                   \A k \in DOMAIN unique_events :
                     unique_events[k].url = s_events[i].url =>
                       unique_events[k] =
                         s_events[FirstPositionOf(s_events, s_events[i].url)])
  /\ [][/\ s_events' # s_events =>
             (c_events' = c_events /\ all_events' = all_events)
        /\ c_events' # c_events =>
             (s_events' = s_events /\ all_events' = all_events)
        /\ all_events' # all_events =>
             (s_events' = s_events /\ c_events' = c_events)]_vars

\* both branches returned an event of one URL under different names, and
\* discover_all returned the search-derived one
C27_Witness ==
  /\ e_pc = "done"
  /\ s_pc = "returned"
  /\ c_pc = "returned"
  /\ \E i \in DOMAIN s_events : \E j \in DOMAIN c_events :
       /\ s_events[i].url = c_events[j].url
       /\ s_events[i].name # c_events[j].name
       /\ \E k \in DOMAIN unique_events : unique_events[k] = s_events[i]
       /\ \A k \in DOMAIN unique_events : unique_events[k] # c_events[j]

\* C29: every grant GrantResearchAgent.research returns has a relevance
\* score at or above the grants relevance_threshold, whatever the oracle
\* replied for the candidates whose keyword score was 75 or more
C29_GrantsAtOrAboveThreshold ==
  g_pc = "done" =>
    \A k \in DOMAIN g_discovered :
      /\ g_discovered[k].relevance_score # None
      /\ g_discovered[k].relevance_score[1] >= grant_relevance_threshold

\* C30: the keyword-fallback acceptance of NewsResearchAgent.research can
\* happen: some text and URL get a keyword score that is sent to the oracle
\* (at least the quick-filter floor, below the high-confidence bound) and is
\* at or above relevance_threshold, so that the except branch keeps it
\* (stated once the scorer has returned, over every text and URL it is
\* called with)
C30_FallbackAcceptReachable ==
  q_pc = "returned" =>
  \E text \in SampleTexts : \E url \in SampleUrls :
    LET quick_score == News_quick_relevance_check(text, url)
    IN  /\ quick_score >= QuickFilterFloor
        /\ ~SkipsLLM(quick_score)
        /\ FallbackKeeps(quick_score)

====
